---- MODULE Spec2Model ----
(***************************************************************************)
(* Model of the product API server: the ServeMux routes of api.go, the     *)
(* four handlers behind interceptError/interceptLogger, and PgStorage with *)
(* the SQL statements it sends over the database/sql connection pool.      *)
(*                                                                         *)
(* Each client is one goroutine of the HTTP server serving one request at  *)
(* a time.  getProducts, getProduct and updateProduct send one statement   *)
(* and are one step each.  createProduct sends two statements (the insert  *)
(* and SELECT lastval()), each on a connection taken from the pool, and is *)
(* three steps so that other requests interleave between them.             *)
(***************************************************************************)
EXTENDS Integers, Sequences, FiniteSets, TLC

\* ---------------------------------------------------------------- bounds
\* Rows the table may hold (caps the serial sequence).
MaxRows == 2
\* Connections the pool may open.
MaxConns == 2
\* Distinct values of time.Now().
MaxTime == 1

\* Requests in service at once: two are enough to interleave the two statements of
\* CreateProduct with another request's.
Clients == {"c1", "c2"}
Times == 1..MaxTime
\* time.Time{} (the zero value of CreatedAt)
ZeroTime == 0

\* ------------------------------------------------------------- requests
\* Path segments are sequences of characters; a path /service/seg... is
\* [service, segs], so that strings.Split(path, "/") is <<"", service>> \o segs.
IdSegs == { <<"+", "1">>, <<"1", "a">>, <<>> }

\* /getProducts, /createProduct, /createProduct/+1, /updateProduct, /getProduct,
\* /getProduct/, /getProduct/+1, /getProduct/1a, /updateProduct/+1, /updateProduct/1a
Paths ==
    [service : {"getProducts", "createProduct"}, segs : {<<>>}]
    \cup { [service |-> "createProduct", segs |-> << <<"+", "1">> >>],
           [service |-> "updateProduct", segs |-> <<>>] }
    \cup [service : {"getProduct"}, segs : {<<>>} \cup { <<g>> : g \in IdSegs }]
    \cup [service : {"updateProduct"}, segs : { <<g>> : g \in IdSegs \ {<<>>} }]

\* JSON values of a request body's members.
Absent == [t |-> "absent", s |-> "", n |-> 0]
Str(x) == [t |-> "str", s |-> x, n |-> 0]
Num(x) == [t |-> "num", s |-> "", n |-> x]

\* A body is syntactically broken JSON, or a JSON object with these members.
Malformed == [ok |-> FALSE, id |-> Absent, name |-> Absent, code |-> Absent]
Obj(i, n, c) == [ok |-> TRUE, id |-> i, name |-> n, code |-> c]

\* Broken JSON; {"name":"a","code":"x"}; bodies with an id member, which
\* CreateProductRequest does not have; an id of the wrong type; a name of the wrong type.
Bodies ==
    { Malformed,
      Obj(Absent, Str("a"), Str("x")),
      Obj(Num(1), Str("b"), Str("y")),
      Obj(Num(3), Str("b"), Str("y")),
      Obj(Str("1"), Str("a"), Str("x")),
      Obj(Num(1), Num(1), Str("x")) }

\* ---------------------------------------------------------------- state
VARIABLES
    product,    \* rows of table product, a sequence of [id, name, code, createdAt]
    seqval,     \* last value of the serial sequence behind product.id
    sess,       \* sess[k]: lastval() of connection k's session, 0 when undefined
    freeConn,   \* sql.DB's idle connections, reused last-in first-out
    pc,         \* pc[c]: where client c's handler stands
    cur,        \* cur[c]: the locals of the createProduct in progress
    resp,       \* the last response written
    obs,        \* what the request behind resp was and did (history)
    created     \* the ids returned by the createProducts answered 200 (history)

vars == <<product, seqval, sess, freeConn, pc, cur, resp, obs, created>>

NoProduct == [Id |-> 0, Name |-> "", Code |-> "", CreatedAt |-> ZeroTime]

\* resp.ids are the ids of the products of a getProducts body, in the body's order.
NoResp ==
    [route |-> "none", status |-> 0, kind |-> "none", p |-> NoProduct, ids |-> <<>>]

\* malformed: the request's body was not well-formed JSON;
\* hit: the request ran UpdateProduct and a row had the product's id;
\* changed: the step that wrote the response changed the table;
\* insId: the id the database gave to the row this request inserted (0: none);
\* dbOps: the statements the request sent to the database.
NoObs == [malformed |-> FALSE, hit |-> FALSE, changed |-> FALSE, insId |-> 0, dbOps |-> 0]

StatusOK == 200
StatusBadRequest == 400
StatusNotFound == 404

\* ----------------------------------------------------------- ServeMux
\* The patterns of HandleEndpoints: a literal path matches itself only, and {id}
\* matches exactly one non-empty segment.  "none" is the mux's own 404.
Route(path) ==
    CASE path.service \in {"getProducts", "createProduct"} /\ path.segs = <<>>
            -> path.service
      [] path.service \in {"getProduct", "updateProduct"}
            /\ Len(path.segs) = 1 /\ path.segs[1] # <<>>
            -> path.service
      [] OTHER -> "none"

\* ----------------------------------------------------------- strconv.Atoi
Digits == {"0", "1", "2", "3", "4", "5", "6", "7", "8", "9"}

DigitVal(ch) ==
    CASE ch = "0" -> 0 [] ch = "1" -> 1 [] ch = "2" -> 2 [] ch = "3" -> 3
      [] ch = "4" -> 4 [] ch = "5" -> 5 [] ch = "6" -> 6 [] ch = "7" -> 7
      [] ch = "8" -> 8 [] ch = "9" -> 9

RECURSIVE DecVal(_)
DecVal(s) == IF s = <<>> THEN 0 ELSE 10 * DecVal(SubSeq(s, 1, Len(s) - 1)) + DigitVal(s[Len(s)])

\* [err, n]: an optional sign, then one or more decimal digits.  The segments of
\* IdSegs are shorter than 19 characters, where Atoi cannot leave int's range.
Atoi(s) ==
    LET signed == s # <<>> /\ s[1] \in {"+", "-"}
        body == IF signed THEN Tail(s) ELSE s
    IN  IF body = <<>> \/ \E i \in DOMAIN body : body[i] \notin Digits
        THEN [err |-> TRUE, n |-> 0]
        ELSE [err |-> FALSE, n |-> IF s[1] = "-" THEN 0 - DecVal(body) ELSE DecVal(body)]

\* getId: parts[2] of strings.Split(path, "/"), parsed by Atoi.
getId(path) ==
    IF Len(path.segs) + 2 < 3
    THEN [err |-> TRUE, n |-> 0]
    ELSE Atoi(path.segs[1])

\* ------------------------------------------------------- encoding/json
\* DecodeCreate with the decoder's syntax errors dropped.
DecodeCreateLenient(body) ==
    [err  |-> body.name.t = "num" \/ body.code.t = "num",
     Name |-> body.name.s,
     Code |-> body.code.s]

\* json.Decoder.Decode into CreateProductRequest: a syntax error or a member of the
\* wrong JSON type is an error; an absent member leaves the zero value; members the
\* struct does not have (id) are skipped.
DecodeCreate(body) ==
    [err  |-> ~body.ok \/ body.name.t = "num" \/ body.code.t = "num",
     Name |-> body.name.s,
     Code |-> body.code.s]

\* json.Decoder.Decode into UpdateProductRequest.
DecodeUpdate(body) ==
    [err  |-> ~body.ok \/ body.id.t = "str" \/ body.name.t = "num" \/ body.code.t = "num",
     Id   |-> body.id.n,
     Name |-> body.name.s,
     Code |-> body.code.s]

\* ------------------------------------------------------------ database
\* The relations Init creates.
Relations == {"product"}

\* rand.Int64() of NewProduct.  CreateProduct overwrites the value, or drops it with
\* p, before anything reads it, so one value stands for them all.
RandIds == {901}

NewProduct(name, code, rnd, now) ==
    [Id |-> rnd, Name |-> name, Code |-> code, CreatedAt |-> now]

ToProduct(row) ==
    [Id |-> row.id, Name |-> row.name, Code |-> row.code, CreatedAt |-> row.createdAt]

\* insert into product (name, code, createdAt) values ($1, $2, $3): id is nextval.
InsertRow(tbl, p, id) ==
    Append(tbl, [id |-> id, name |-> p.Name, code |-> p.Code, createdAt |-> p.CreatedAt])

\* UpdateRows with the where clause lost.
UpdateRowsNoWhere(tbl, p) ==
    [i \in DOMAIN tbl |->
        [id |-> tbl[i].id, name |-> p.Name, code |-> p.Code, createdAt |-> p.CreatedAt]]

\* update product set name=$1, code=$2, createdAt=$3 where id=$4
UpdateRows(tbl, p) ==
    [i \in DOMAIN tbl |->
        IF tbl[i].id = p.Id
        THEN [id |-> tbl[i].id, name |-> p.Name, code |-> p.Code, createdAt |-> p.CreatedAt]
        ELSE tbl[i]]

\* select * from <rel> where id=$1
QueryById(rel, id) ==
    IF rel \notin Relations
    THEN [err |-> TRUE, rows |-> <<>>]
    ELSE [err |-> FALSE, rows |-> SelectSeq(product, LAMBDA row : row.id = id)]

\* select * from <rel>
QueryAll(rel) ==
    IF rel \notin Relations
    THEN [err |-> TRUE, rows |-> <<>>]
    ELSE [err |-> FALSE, rows |-> product]

RECURSIVE ScanAll(_)
ScanAll(rows) == IF rows = <<>> THEN <<>> ELSE <<ToProduct(Head(rows))>> \o ScanAll(Tail(rows))

\* PgStorage.GetProductById: [kind, p]
GetProductById(id) ==
    LET q == QueryById("p", id)
    IN  IF q.err THEN [kind |-> "StorageError", p |-> NoProduct]
        ELSE IF q.rows = <<>> THEN [kind |-> "NotFoundError", p |-> NoProduct]
        ELSE [kind |-> "ok", p |-> ToProduct(q.rows[1])]

\* PgStorage.GetProducts: [kind, products]
GetProducts ==
    LET q == QueryAll("product")
    IN  IF q.err THEN [kind |-> "StorageError", products |-> <<>>]
        ELSE [kind |-> "ok", products |-> ScanAll(q.rows)]

\* ------------------------------------------------------ connection pool
\* sql.DB.conn: the most recently freed idle connection, else a new one.
CanTakeConn == freeConn # <<>> \/ Len(sess) < MaxConns
TakeConn == IF freeConn # <<>> THEN freeConn[Len(freeConn)] ELSE Len(sess) + 1
SessAfterTake == IF freeConn # <<>> THEN sess ELSE Append(sess, 0)
FreeAfterTake == IF freeConn # <<>> THEN SubSeq(freeConn, 1, Len(freeConn) - 1) ELSE freeConn

\* A statement that takes a connection, runs and gives the connection back, and
\* that leaves the session's lastval() alone.
RunStatement ==
    /\ CanTakeConn
    /\ sess' = SessAfterTake
    /\ freeConn' = Append(FreeAfterTake, TakeConn)

\* ------------------------------------------------------------ responses
\* writeJSON(w, status, v): the status and the JSON body.
writeJSON(route, status, kind, p, products) ==
    resp' = [route |-> route, status |-> status, kind |-> kind, p |-> p,
             ids |-> [i \in DOMAIN products |-> products[i].Id]]

\* interceptError when the handler returned err: 400 and WebError{err.Error()}.
interceptError(route, kind) ==
    writeJSON(route, StatusBadRequest, kind, NoProduct, <<>>)

\* Records the request behind the response; product' is already set where this is used.
Observe(malformed, hit, insId, dbOps) ==
    obs' = [malformed |-> malformed, hit |-> hit, changed |-> product' # product,
            insId |-> insId, dbOps |-> dbOps]

HasRow(id) == \E i \in DOMAIN product : product[i].id = id

\* ------------------------------------------------------------- handlers
TypeOK ==
    /\ seqval \in 0..MaxRows
    /\ Len(product) <= MaxRows
    /\ Len(sess) <= MaxConns
    /\ pc \in [Clients -> {"ready", "inserting", "inserted"}]

\* The locals of a handler that is not in CreateProduct.
NoCall == [p |-> NoProduct, conn |-> 0, insId |-> 0, malformed |-> FALSE]

Init ==
    /\ product = <<>>
    /\ seqval = 0
    /\ sess = <<>>
    /\ freeConn = <<>>
    /\ pc = [c \in Clients |-> "ready"]
    /\ cur = [c \in Clients |-> NoCall]
    /\ resp = NoResp
    /\ obs = NoObs
    /\ created = {}

\* A path no pattern matches: the mux answers 404 and no handler runs.
Unrouted(c, path) ==
    /\ pc[c] = "ready"
    /\ Route(path) = "none"
    /\ UNCHANGED <<product, seqval, sess, freeConn, pc, cur, created>>
    /\ writeJSON("none", StatusNotFound, "mux", NoProduct, <<>>)
    /\ Observe(FALSE, FALSE, 0, 0)

getProducts(c, path) ==
    /\ pc[c] = "ready"
    /\ Route(path) = "getProducts"
    /\ UNCHANGED <<product, seqval, pc, cur, created>>
    /\ RunStatement
    /\ LET r == GetProducts
       IN  IF r.kind # "ok"
           THEN interceptError("getProducts", r.kind)
           ELSE writeJSON("getProducts", StatusOK, "ok", NoProduct, r.products)
    /\ Observe(FALSE, FALSE, 0, 1)

getProduct(c, path) ==
    /\ pc[c] = "ready"
    /\ Route(path) = "getProduct"
    /\ UNCHANGED <<product, seqval, pc, cur, created>>
    /\ LET id == getId(path)
       IN  IF id.err
           THEN /\ interceptError("getProduct", "IdParseError")
                /\ Observe(FALSE, FALSE, 0, 0)
                /\ UNCHANGED <<sess, freeConn>>
           ELSE /\ RunStatement
                /\ Observe(FALSE, FALSE, 0, 1)
                /\ LET r == GetProductById(id.n)
                   IN  IF r.kind # "ok"
                       THEN interceptError("getProduct", r.kind)
                       ELSE writeJSON("getProduct", StatusOK, "ok", r.p, <<>>)

updateProduct(c, path, body) ==
    /\ pc[c] = "ready"
    /\ Route(path) = "updateProduct"
    /\ UNCHANGED <<seqval, pc, cur, created>>
    /\ LET request == DecodeUpdate(body)
           p == [Id |-> request.Id, Name |-> request.Name, Code |-> request.Code,
                 CreatedAt |-> ZeroTime]
       IN  IF request.err
           THEN /\ UNCHANGED <<product, sess, freeConn>>
                /\ interceptError("updateProduct", "DecodeError")
                /\ Observe(~body.ok, FALSE, 0, 0)
           ELSE /\ RunStatement
                /\ IF "product" \notin Relations
                   THEN /\ UNCHANGED product
                        /\ interceptError("updateProduct", "StorageError")
                   ELSE /\ product' = UpdateRows(product, p)
                        /\ writeJSON("updateProduct", StatusOK, "ok", p, <<>>)
                /\ Observe(~body.ok, HasRow(p.Id), 0, 1)

\* createProduct up to db.Exec of the insert, which holds its connection.
createProduct(c, path, body, rnd, now) ==
    /\ pc[c] = "ready"
    /\ Route(path) = "createProduct"
    /\ UNCHANGED created
    /\ LET request == DecodeCreate(body)
           p == NewProduct(request.Name, request.Code, rnd, now)
           k == TakeConn
       IN  IF request.err
           THEN /\ UNCHANGED <<product, seqval, sess, freeConn, pc, cur>>
                /\ interceptError("createProduct", "DecodeError")
                /\ Observe(~body.ok, FALSE, 0, 0)
           ELSE /\ CanTakeConn
                /\ seqval < MaxRows
                /\ freeConn' = FreeAfterTake
                /\ IF "product" \notin Relations
                   THEN /\ sess' = SessAfterTake
                        /\ cur' = [cur EXCEPT ![c] = [p |-> p, conn |-> k, insId |-> 0,
                                                      malformed |-> ~body.ok]]
                        /\ UNCHANGED <<product, seqval>>
                   ELSE /\ seqval' = seqval + 1
                        /\ product' = InsertRow(product, p, seqval + 1)
                        /\ sess' = [SessAfterTake EXCEPT ![k] = seqval + 1]
                        /\ cur' = [cur EXCEPT ![c] = [p |-> p, conn |-> k, insId |-> seqval + 1,
                                                      malformed |-> ~body.ok]]
                /\ pc' = [pc EXCEPT ![c] = "inserting"]
                /\ UNCHANGED <<resp, obs>>

\* db.Exec returns: its connection goes back to the pool.
createExecReturn(c) ==
    /\ pc[c] = "inserting"
    /\ UNCHANGED <<product, seqval, sess, created>>
    /\ freeConn' = Append(freeConn, cur[c].conn)
    /\ IF cur[c].insId = 0
       THEN /\ interceptError("createProduct", "StorageError")
            /\ Observe(cur[c].malformed, FALSE, 0, 1)
            /\ pc' = [pc EXCEPT ![c] = "ready"]
            /\ cur' = [cur EXCEPT ![c] = NoCall]
       ELSE /\ pc' = [pc EXCEPT ![c] = "inserted"]
            /\ cur' = [cur EXCEPT ![c].conn = 0]
            /\ UNCHANGED <<resp, obs>>

\* db.QueryRow("SELECT lastval()").Scan(&lastInsertId) on a connection of the pool,
\* then p.Id = lastInsertId and the 200 response.
createLastval(c) ==
    /\ pc[c] = "inserted"
    /\ UNCHANGED <<product, seqval>>
    /\ RunStatement
    /\ LET lastInsertId == SessAfterTake[TakeConn]
           p == [cur[c].p EXCEPT !.Id = lastInsertId]
       IN  IF lastInsertId = 0
           THEN /\ interceptError("createProduct", "StorageError")
                /\ UNCHANGED created
           ELSE /\ writeJSON("createProduct", StatusOK, "ok", p, <<>>)
                /\ created' = created \cup {p.Id}
    /\ Observe(cur[c].malformed, FALSE, cur[c].insId, 2)
    /\ pc' = [pc EXCEPT ![c] = "ready"]
    /\ cur' = [cur EXCEPT ![c] = NoCall]

Next ==
    \E c \in Clients :
        \/ \E path \in Paths : Unrouted(c, path)
        \/ \E path \in Paths : getProducts(c, path)
        \/ \E path \in Paths : getProduct(c, path)
        \/ \E path \in Paths, body \in Bodies : updateProduct(c, path, body)
        \/ \E path \in Paths, body \in Bodies, rnd \in RandIds, now \in Times :
              createProduct(c, path, body, rnd, now)
        \/ createExecReturn(c)
        \/ createLastval(c)

Spec == Init /\ [][Next]_vars

\* --------------------------------------------------------------- claims
Quiet == \A c \in Clients : pc[c] = "ready"
Range(seq) == { seq[i] : i \in DOMAIN seq }

\* C1: when a createProduct has just answered 200 with id i, the next request, a
\* getProduct for i, answers 200 with id i and the name and code given to the create.
C1_CreateThenGet ==
    [][\A c \in Clients, path \in Paths :
         (/\ resp.route = "createProduct"
          /\ resp.status = StatusOK
          /\ getProduct(c, path)
          /\ ~getId(path).err
          /\ getId(path).n = resp.p.Id)
         => /\ resp'.status = StatusOK
            /\ resp'.p.Id = resp.p.Id
            /\ resp'.p.Name = resp.p.Name
            /\ resp'.p.Code = resp.p.Code]_vars

\* C2: with no createProduct in progress, getProducts answers 200 and the ids it
\* returns are exactly the ids that the successful creates returned (none when no
\* create succeeded).
C2_ListIsTheCreatedIds ==
    [][\A c \in Clients, path \in Paths :
         (getProducts(c, path) /\ Quiet)
         => /\ resp'.status = StatusOK
            /\ Range(resp'.ids) = created]_vars

\* C3: a getProduct for an id that no row has answers 400 with a NotFound error and
\* leaves the table unchanged.
C3_GetMissingIsNotFound ==
    [][\A c \in Clients, path \in Paths :
         (getProduct(c, path) /\ ~getId(path).err /\ ~HasRow(getId(path).n))
         => /\ resp'.status = StatusBadRequest
            /\ resp'.kind = "NotFoundError"
            /\ product' = product]_vars

\* C4: when an updateProduct of an existing row has just answered 200, the next
\* request, a getProduct for that id, returns the updated name and code.
C4_UpdateThenGet ==
    [][\A c \in Clients, path \in Paths :
         (/\ resp.route = "updateProduct"
          /\ resp.status = StatusOK
          /\ obs.hit
          /\ getProduct(c, path)
          /\ ~getId(path).err
          /\ getId(path).n = resp.p.Id)
         => /\ resp'.status = StatusOK
            /\ resp'.p.Name = resp.p.Name
            /\ resp'.p.Code = resp.p.Code]_vars

\* C5: an updateProduct whose body decodes and whose id no row has answers 200 and
\* leaves the table as it was: no row is added and no row changes.
C5_UpdateMissingIsNoOp ==
    (resp.route = "updateProduct" /\ resp.kind # "DecodeError" /\ ~obs.hit)
        => (resp.status = StatusOK /\ ~obs.changed)

\* C5 witness: a table with rows, and the response to an update of an id no row had.
C5_Witness ==
    /\ product # <<>>
    /\ resp.route = "updateProduct"
    /\ resp.status = StatusOK
    /\ ~obs.hit
    /\ obs.dbOps = 1

C7_BadIdIsRejected ==
    [][\A c \in Clients, path \in Paths, body \in Bodies :
         (/\ getId(path).err
          /\ \/ getProduct(c, path)
             \/ ~DecodeUpdate(body).err /\ updateProduct(c, path, body))
         => /\ resp'.status = StatusBadRequest
            /\ resp'.kind = "IdParseError"
            /\ obs'.dbOps = 0]_vars

\* C8: the id a successful createProduct returns is the id of the row that this
\* request inserted.
C8_CreateReturnsOwnId ==
    (resp.route = "createProduct" /\ resp.status = StatusOK)
        => (resp.p.Id = obs.insId)

\* C9: an updateProduct keeps every row's id and createdAt, and leaves the rows with
\* another id unchanged.
C9_UpdateKeepsCreatedAt ==
    [][\A c \in Clients, path \in Paths, body \in Bodies :
         updateProduct(c, path, body)
         => /\ DOMAIN product' = DOMAIN product
            /\ \A i \in DOMAIN product :
                 /\ product'[i].id = product[i].id
                 /\ product'[i].createdAt = product[i].createdAt
                 /\ (product[i].id # DecodeUpdate(body).Id => product'[i] = product[i])]_vars

\* C10: a createProduct that answers 400 has added no row.
C10_FailedCreateAddsNoRow ==
    (resp.route = "createProduct" /\ resp.status = StatusBadRequest)
        => (obs.insId = 0)

====
